---- MODULE Spec2Model ----
(***************************************************************************)
(* Model of create_rds.py: parse the command line, build a provider        *)
(* session, send one create_db_instance request, wait with the             *)
(* db_instance_available waiter, describe the instance and print its       *)
(* endpoint.  Every step of main() is one action; the provider and the     *)
(* operator at the terminal are the environment, chosen with \E.           *)
(*                                                                         *)
(* Python's None is modelled by the empty tuple and a present value v by   *)
(* the one-element tuple <<v>>, so that "omitted" and "given as empty"     *)
(* stay different values.  A dict is a function on the set of its keys.    *)
(***************************************************************************)
EXTENDS Integers, Sequences, FiniteSets, TLC

VARIABLES pc, argv, args, session, prompts, entered, events, createParams,
          waiterConfig, attempts, lastStatus, described, ok, result, out, how,
          exitCode

vars == <<pc, argv, args, session, prompts, entered, events, createParams,
          waiterConfig, attempts, lastStatus, described, ok, result, out, how,
          exitCode>>

----------------------------------------------------------------------------
(* Python values *)

None == <<>>

Some(v) == <<v>>

\* d.get(k, default) on a dict
Get(d, k, default) == IF k \in DOMAIN d THEN d[k] ELSE default

EmptyDict == [k \in {} |-> None]

\* str(x) as print() shows an optional string: None prints as "None"
Str(opt) == IF opt = None THEN "None" ELSE opt[1]

\* truth value of an optional string: None and "" are falsy
TruthyStr(opt) == opt # None /\ opt[1] # ""

\* truth value of an optional list: None and [] are falsy
TruthyList(opt) == opt # None /\ opt[1] # <<>>

----------------------------------------------------------------------------
(* parse_args *)

\* choices with one engine too many
EngineChoicesAurora == {"postgres", "mysql", "mariadb", "oracle-se2", "sqlserver-ex", "aurora"}

EngineChoices == {"postgres", "mysql", "mariadb", "oracle-se2", "sqlserver-ex"}

\* int() of the decimal literals the command lines of the model use;
\* a literal outside the table is one that type=int rejects
IntLiterals == {"20", "7", "100", "14"}

ParseInt(s) ==
    CASE s = "20" -> 20
      [] s = "7" -> 7
      [] s = "100" -> 100
      [] s = "14" -> 14

\* the command line that gives only the required option
BaseArgv ==
    [ db_instance_identifier |-> Some("db1"),
      db_instance_class      |-> None,
      engine                 |-> None,
      allocated_storage      |-> None,
      db_name                |-> None,
      master_username        |-> None,
      master_user_password   |-> None,
      vpc_security_group_ids |-> None,
      db_subnet_group_name   |-> None,
      publicly_accessible    |-> FALSE,
      multi_az               |-> FALSE,
      backup_retention_period|-> None,
      region                 |-> None ]

\* the command lines of the model: every option is omitted (None) or given.
\* Three families, each varying one group of options of BaseArgv.
ArgvIdentity ==
    { [BaseArgv EXCEPT !.db_instance_identifier = i, !.engine = e,
                       !.master_user_password = p, !.vpc_security_group_ids = g,
                       !.db_subnet_group_name = n] :
        i \in {None, Some("db1"), Some("db2")},
        e \in {None, Some("mysql"), Some("aurora")},
        p \in {None, Some(""), Some("pw1")},
        g \in {None, Some(<<>>), Some(<<"sg-1">>)},
        n \in {None, Some(""), Some("subnet-a")} }

ArgvSizing ==
    { [BaseArgv EXCEPT !.allocated_storage = s, !.db_instance_class = c,
                       !.publicly_accessible = pa, !.multi_az = m, !.region = r] :
        s \in {None, Some("100"), Some("big")},
        c \in {None, Some("db.m5.large")},
        pa \in BOOLEAN, m \in BOOLEAN,
        r \in {None, Some(""), Some("us-east-1")} }

ArgvNaming ==
    { [BaseArgv EXCEPT !.db_name = d, !.master_username = u,
                       !.backup_retention_period = b] :
        d \in {None, Some("shop")},
        u \in {None, Some("root")},
        b \in {None, Some("14"), Some("two")} }

ArgvSet == ArgvIdentity \cup ArgvSizing \cup ArgvNaming

\* argparse accepts the command line: required option present, engine among
\* the choices, type=int options are integer literals
ArgvValid(a) ==
    /\ a.db_instance_identifier # None
    /\ a.engine # None => a.engine[1] \in EngineChoices
    /\ a.allocated_storage # None => a.allocated_storage[1] \in IntLiterals
    /\ a.backup_retention_period # None => a.backup_retention_period[1] \in IntLiterals

\* the namespace parse_args returns for an accepted command line
Namespace(a) ==
    [ db_instance_identifier |-> a.db_instance_identifier[1],
      db_instance_class      |-> IF a.db_instance_class = None THEN "db.t3.micro"
                                 ELSE a.db_instance_class[1],
      engine                 |-> IF a.engine = None THEN "postgres" ELSE a.engine[1],
      allocated_storage      |-> IF a.allocated_storage = None THEN 20
                                 ELSE ParseInt(a.allocated_storage[1]),
      db_name                |-> IF a.db_name = None THEN "mydb" ELSE a.db_name[1],
      master_username        |-> IF a.master_username = None THEN "admin"
                                 ELSE a.master_username[1],
      master_user_password   |-> a.master_user_password,
      vpc_security_group_ids |-> a.vpc_security_group_ids,
      db_subnet_group_name   |-> a.db_subnet_group_name,
      publicly_accessible    |-> a.publicly_accessible,
      multi_az               |-> a.multi_az,
      backup_retention_period|-> IF a.backup_retention_period = None THEN 7
                                 ELSE ParseInt(a.backup_retention_period[1]),
      region                 |-> a.region ]

NoArgs == EmptyDict

----------------------------------------------------------------------------
(* process termination *)

\* the process ends with status `code`; `why` tells which path ended it
Exit(why, code) ==
    /\ pc' = "exited"
    /\ how' = why
    /\ exitCode' = code

----------------------------------------------------------------------------
(* the environment: what the provider can answer *)

\* Error.Message of a ClientError
ErrorMessages == {"AccessDenied", "Throttling"}

\* DBInstanceStatus values the waiter's acceptors tell apart: retry, success,
\* failure
PendingStatuses == {"creating"}

FailureStatuses == {"failed", "deleting"}

\* responses of describe_db_instances: the instance with its endpoint, an
\* instance whose Endpoint is missing, an instance list that is empty
EndpointOf(id) == [Address |-> Some(id), Port |-> Some("5432")]

DescribeResponses(id) ==
    { [DBInstances |-> << [Endpoint |-> EndpointOf(id)] >>],
      [DBInstances |-> << [DBInstanceStatus |-> "available"] >>],
      [DBInstances |-> << >>] }

----------------------------------------------------------------------------
(* main, line by line *)

Init ==
    /\ pc = "parse_args"
    /\ argv \in ArgvSet
    /\ args = NoArgs
    /\ session = None
    /\ prompts = 0
    /\ entered = None
    /\ events = <<>>
    /\ createParams = EmptyDict
    /\ waiterConfig = EmptyDict
    /\ attempts = 0
    /\ lastStatus = "none"
    /\ described = "none"
    /\ ok = "unset"
    /\ result = None
    /\ out = <<>>
    /\ how = "running"
    /\ exitCode = -1

\* args = parse_args(): argparse ends the process with a usage error (status
\* 2) when it rejects the command line
ParseArgs ==
    /\ pc = "parse_args"
    /\ IF ArgvValid(argv)
       THEN /\ args' = Namespace(argv)
            /\ pc' = "session"
            /\ UNCHANGED <<how, exitCode>>
       ELSE /\ Exit("usage_error", 2)
            /\ UNCHANGED args
    /\ UNCHANGED <<argv, session, prompts, entered, events, createParams,
                   waiterConfig, attempts, lastStatus, described, ok, result, out>>

\* session_kwargs: region_name only when args.region is truthy
SessionKwargs(a) ==
    IF TruthyStr(a.region) THEN [region_name |-> a.region[1]] ELSE EmptyDict

\* session = boto3.Session(**session_kwargs); rds = session.client("rds").
\* Building the client raises NoRegionError when no region is configured
\* anywhere; nothing catches it.
BuildSession ==
    /\ pc = "session"
    /\ \/ /\ session' = Some(SessionKwargs(args))
          /\ events' = Append(events, [op |-> "session", id |-> ""])
          /\ pc' = "create_db_instance"
          /\ UNCHANGED <<how, exitCode>>
       \/ /\ ~TruthyStr(args.region)
          /\ Exit("uncaught", 1)
          /\ UNCHANGED <<session, events>>
    /\ UNCHANGED <<argv, args, prompts, entered, createParams, waiterConfig,
                   attempts, lastStatus, described, ok, result, out>>

\* pw = args.master_user_password or getpass.getpass(...)
PasswordValues == {"", "typed"}

GetPassword ==
    /\ pc = "create_db_instance"
    /\ IF TruthyStr(args.master_user_password)
       THEN UNCHANGED <<prompts, entered, events>>
       ELSE /\ prompts' = prompts + 1
            /\ \E typed \in PasswordValues : entered' = Some(typed)
            /\ events' = Append(events, [op |-> "prompt", id |-> ""])
    /\ pc' = "create_call"
    /\ UNCHANGED <<argv, args, session, createParams, waiterConfig, attempts,
                   lastStatus, described, ok, result, out, how, exitCode>>

\* the password taken from the command line whenever the option is present,
\* empty or not
PwWhenPresent(a, typed) ==
    IF a.master_user_password # None THEN a.master_user_password[1]
    ELSE typed[1]

\* the password create_db_instance sends
Pw(a, typed) ==
    IF TruthyStr(a.master_user_password) THEN a.master_user_password[1]
    ELSE typed[1]

\* params of create_db_instance: the fixed keys, then the two optional ones
BaseParams(a, pw) ==
    [ DBInstanceIdentifier  |-> a.db_instance_identifier,
      AllocatedStorage      |-> a.allocated_storage,
      DBInstanceClass       |-> a.db_instance_class,
      Engine                |-> a.engine,
      MasterUsername        |-> a.master_username,
      MasterUserPassword    |-> pw,
      DBName                |-> a.db_name,
      MultiAZ               |-> a.multi_az,
      PubliclyAccessible    |-> a.publicly_accessible,
      BackupRetentionPeriod |-> a.backup_retention_period,
      StorageType           |-> "gp2" ]

\* the key added whenever the option is present, empty list or not
WithSecurityGroupsWhenPresent(a, p) ==
    IF a.vpc_security_group_ids # None
    THEN [k \in DOMAIN p \cup {"VpcSecurityGroupIds"} |->
            IF k = "VpcSecurityGroupIds" THEN a.vpc_security_group_ids[1] ELSE p[k]]
    ELSE p

WithSecurityGroups(a, p) ==
    IF TruthyList(a.vpc_security_group_ids)
    THEN [k \in DOMAIN p \cup {"VpcSecurityGroupIds"} |->
            IF k = "VpcSecurityGroupIds" THEN a.vpc_security_group_ids[1] ELSE p[k]]
    ELSE p

WithSubnetGroup(a, p) ==
    IF TruthyStr(a.db_subnet_group_name)
    THEN [k \in DOMAIN p \cup {"DBSubnetGroupName"} |->
            IF k = "DBSubnetGroupName" THEN a.db_subnet_group_name[1] ELSE p[k]]
    ELSE p

Params(a, pw) == WithSubnetGroup(a, WithSecurityGroups(a, BaseParams(a, pw)))

\* try: rds.create_db_instance(**params) ... except ClientError.
\* The provider accepts the request, or rejects it (ClientError); a failure
\* that is no ClientError (the connection) is not caught.
CreateCall ==
    /\ pc = "create_call"
    /\ createParams' = Params(args, Pw(args, entered))
    /\ events' = Append(events, [op |-> "create", id |-> args.db_instance_identifier])
    /\ \/ /\ ok' = "True"
          /\ out' = out \o << <<"Creating DB instance", args.db_instance_identifier>>,
                              <<"Create call accepted, status:", "creating">> >>
          /\ pc' = "main_after_create"
          /\ UNCHANGED <<how, exitCode>>
       \/ \E msg \in ErrorMessages :
            /\ ok' = "False"
            /\ out' = out \o << <<"Creating DB instance", args.db_instance_identifier>>,
                                <<"Error creating DB instance:", msg>> >>
            /\ pc' = "main_after_create"
            /\ UNCHANGED <<how, exitCode>>
       \/ /\ out' = Append(out, <<"Creating DB instance", args.db_instance_identifier>>)
          /\ Exit("uncaught", 1)
          /\ UNCHANGED ok
    /\ UNCHANGED <<argv, args, session, prompts, entered, waiterConfig,
                   attempts, lastStatus, described, result>>

\* main without the exit after a failed create
MainAfterCreateNoExit ==
    /\ pc = "main_after_create"
    /\ pc' = "wait_for_available"
    /\ UNCHANGED <<argv, args, session, prompts, entered, events, createParams,
                   waiterConfig, attempts, lastStatus, described, ok, result,
                   out, how, exitCode>>

\* if not ok: sys.exit(1)
MainAfterCreate ==
    /\ pc = "main_after_create"
    /\ IF ok = "False"
       THEN Exit("sys_exit", 1)
       ELSE /\ pc' = "wait_for_available"
            /\ UNCHANGED <<how, exitCode>>
    /\ UNCHANGED <<argv, args, session, prompts, entered, events, createParams,
                   waiterConfig, attempts, lastStatus, described, ok, result, out>>

\* wait_for_available(rds, identifier, timeout_minutes=30)
DefaultTimeoutMinutes == 30

Delay == 30

\* the attempts computed from the seconds without the division
MaxAttemptsSeconds(timeout_minutes) == timeout_minutes * 60

\* int(timeout_seconds / 30) with timeout_seconds = timeout_minutes * 60
MaxAttempts(timeout_minutes) == (timeout_minutes * 60) \div 30

WaiterConfig(timeout_minutes) ==
    [Delay |-> Delay, MaxAttempts |-> MaxAttempts(timeout_minutes)]

\* ok = wait_for_available(rds, args.db_instance_identifier): get the waiter,
\* print, enter waiter.wait with the WaiterConfig
WaitStart ==
    /\ pc = "wait_for_available"
    /\ waiterConfig' = WaiterConfig(DefaultTimeoutMinutes)
    /\ events' = Append(events, [op |-> "wait", id |-> args.db_instance_identifier])
    /\ out' = Append(out, <<"Waiting for DB instance to become available", "">>)
    /\ attempts' = 0
    /\ pc' = "waiter_wait"
    /\ UNCHANGED <<argv, args, session, prompts, entered, createParams,
                   lastStatus, described, ok, result, how, exitCode>>

\* wait_for_available returns: True after waiter.wait returned, False from
\* either except clause
WaitReturns(value, line) ==
    /\ ok' = value
    /\ out' = IF line = None THEN out ELSE Append(out, line[1])
    /\ pc' = "main_after_wait"
    /\ UNCHANGED <<how, exitCode>>

\* one status check of waiter.wait: the waiter asks the provider, counts the
\* attempt, returns on the success state, raises WaiterError on a failure
\* state, on an error response and when the attempts are used up, and
\* otherwise sleeps Delay seconds and checks again
WaiterPoll ==
    /\ pc = "waiter_wait"
    /\ attempts' = attempts + 1
    /\ \/ /\ lastStatus' = "available"
          /\ WaitReturns("True", None)
       \/ \E st \in FailureStatuses :
            /\ lastStatus' = st
            /\ WaitReturns("False", Some(<<"Timed out waiting for DB to become available:", st>>))
       \/ \E msg \in ErrorMessages :
            /\ lastStatus' = "error"
            /\ \/ WaitReturns("False", Some(<<"Timed out waiting for DB to become available:", msg>>))
               \/ WaitReturns("False", Some(<<"Error while waiting:", msg>>))
       \/ /\ lastStatus' = "unreachable"
          /\ Exit("uncaught", 1)
          /\ UNCHANGED <<ok, out>>
       \/ \E st \in PendingStatuses :
            /\ lastStatus' = st
            /\ IF attempts' >= waiterConfig.MaxAttempts
               THEN WaitReturns("False", Some(<<"Timed out waiting for DB to become available:",
                                                "Max attempts exceeded">>))
               ELSE UNCHANGED <<pc, ok, out, how, exitCode>>
    /\ UNCHANGED <<argv, args, session, prompts, entered, events, createParams,
                   waiterConfig, described, result>>

\* main that starts the wait again after a failed wait
MainAfterWaitRetry ==
    /\ pc = "main_after_wait"
    /\ IF ok = "False"
       THEN /\ pc' = "wait_for_available"
            /\ UNCHANGED <<how, exitCode>>
       ELSE /\ pc' = "describe_endpoint"
            /\ UNCHANGED <<how, exitCode>>
    /\ UNCHANGED <<argv, args, session, prompts, entered, events, createParams,
                   waiterConfig, attempts, lastStatus, described, ok, result, out>>

\* main with the create step's exit status after a failed wait
MainAfterWaitExit1 ==
    /\ pc = "main_after_wait"
    /\ IF ok = "False"
       THEN Exit("sys_exit", 1)
       ELSE /\ pc' = "describe_endpoint"
            /\ UNCHANGED <<how, exitCode>>
    /\ UNCHANGED <<argv, args, session, prompts, entered, events, createParams,
                   waiterConfig, attempts, lastStatus, described, ok, result, out>>

\* if not ok: sys.exit(2)
MainAfterWait ==
    /\ pc = "main_after_wait"
    /\ IF ok = "False"
       THEN Exit("sys_exit", 2)
       ELSE /\ pc' = "describe_endpoint"
            /\ UNCHANGED <<how, exitCode>>
    /\ UNCHANGED <<argv, args, session, prompts, entered, events, createParams,
                   waiterConfig, attempts, lastStatus, described, ok, result, out>>

\* the body of describe_endpoint after the response arrived:
\* inst = resp["DBInstances"][0]; endpoint = inst.get("Endpoint", {}) ...
EndpointAddr(resp) ==
    Get(Get(resp.DBInstances[1], "Endpoint", EmptyDict), "Address", None)

EndpointPort(resp) ==
    Get(Get(resp.DBInstances[1], "Endpoint", EmptyDict), "Port", None)

\* describe_endpoint(rds, args.db_instance_identifier); main ignores what it
\* returns.  resp["DBInstances"][0] raises IndexError on an empty list, which
\* nothing catches; a ClientError is printed and (None, None) returned.
DescribeEndpoint ==
    /\ pc = "describe_endpoint"
    /\ events' = Append(events, [op |-> "describe", id |-> args.db_instance_identifier])
    /\ \/ \E resp \in DescribeResponses(args.db_instance_identifier) :
            IF Len(resp.DBInstances) = 0
            THEN /\ described' = "empty_list"
                 /\ Exit("uncaught", 1)
                 /\ UNCHANGED <<result, out>>
            ELSE /\ described' = IF "Endpoint" \in DOMAIN resp.DBInstances[1]
                                 THEN "endpoint" ELSE "no_endpoint"
                 /\ result' = <<EndpointAddr(resp), EndpointPort(resp)>>
                 /\ out' = out \o << <<"DB instance available.", "">>,
                                     <<"Endpoint:", Str(EndpointAddr(resp))>>,
                                     <<"Port:", Str(EndpointPort(resp))>> >>
                 /\ pc' = "main_return"
                 /\ UNCHANGED <<how, exitCode>>
       \/ \E msg \in ErrorMessages :
            /\ described' = "client_error"
            /\ result' = <<None, None>>
            /\ out' = Append(out, <<"Error describing DB instance:", msg>>)
            /\ pc' = "main_return"
            /\ UNCHANGED <<how, exitCode>>
       \/ /\ described' = "unreachable"
          /\ Exit("uncaught", 1)
          /\ UNCHANGED <<result, out>>
    /\ UNCHANGED <<argv, args, session, prompts, entered, createParams,
                   waiterConfig, attempts, lastStatus, ok>>

\* main() returns and the interpreter ends with status 0
MainReturn ==
    /\ pc = "main_return"
    /\ Exit("returned", 0)
    /\ UNCHANGED <<argv, args, session, prompts, entered, events, createParams,
                   waiterConfig, attempts, lastStatus, described, ok, result, out>>

Next ==
    \/ ParseArgs
    \/ BuildSession
    \/ GetPassword
    \/ CreateCall
    \/ MainAfterCreate
    \/ WaitStart
    \/ WaiterPoll
    \/ MainAfterWait
    \/ DescribeEndpoint
    \/ MainReturn

Spec == Init /\ [][Next]_vars

\* the interpreter runs the script to its end: no step waits on anything but
\* the provider's answer
FairSpec == Spec /\ WF_vars(Next)

----------------------------------------------------------------------------
(* what a run shows from outside *)

\* the provider calls of the run, in order
ProviderOps == {"create", "wait", "describe"}

IsProviderCall(e) == e.op \in ProviderOps

ProviderCalls == SelectSeq(events, IsProviderCall)

Called(op) == \E i \in 1..Len(events) : events[i].op = op

Printed(tag) == \E i \in 1..Len(out) : out[i][1] = tag

PrintedLine(tag, val) == \E i \in 1..Len(out) : out[i] = <<tag, val>>

\* create_db_instance took its except branch
CreateRejected == Printed("Error creating DB instance:")

CreateAccepted == Printed("Create call accepted, status:")

\* wait_for_available took one of its except branches
WaitFailed ==
    \/ Printed("Timed out waiting for DB to become available:")
    \/ Printed("Error while waiting:")

Exited == pc = "exited"

----------------------------------------------------------------------------
(* claims *)

\* C1: when the provider rejects the create request (ClientError), the run
\* can only go on to sys.exit(1): it ends with exit code 1, and neither the
\* waiter nor describe_db_instances is invoked.
C1_CreateErrorExits1 ==
    CreateRejected =>
        /\ pc \in {"main_after_create", "exited"}
        /\ Exited => (how = "sys_exit" /\ exitCode = 1)
        /\ ~Called("wait")
        /\ ~Called("describe")
        /\ waiterConfig = EmptyDict
        /\ attempts = 0

C1_Witness ==
    /\ CreateRejected
    /\ Exited
    /\ exitCode = 1
    /\ Len(ProviderCalls) = 1

\* C2: when the create request was accepted and the wait fails (WaiterError
\* or ClientError), the run can only go on to sys.exit(2): it ends with exit
\* code 2 and describe_db_instances is never called.
C2_WaitFailureExits2 ==
    (CreateAccepted /\ WaitFailed) =>
        /\ pc \in {"main_after_wait", "exited"}
        /\ Exited => (how = "sys_exit" /\ exitCode = 2)
        /\ ~Called("describe")
        /\ described = "none"

C2_Witness ==
    /\ CreateAccepted
    /\ WaitFailed
    /\ Exited
    /\ exitCode = 2
    /\ attempts = 60
    /\ lastStatus \in PendingStatuses

\* the provider answered the describe request with a response (not an
\* error): the instance with its endpoint, the instance without an Endpoint
\* field, or an empty instance list
DescribeAnswered == described \in {"endpoint", "no_endpoint", "empty_list"}

\* the endpoint of the instance the command line names, as printed
EndpointPrinted ==
    /\ PrintedLine("Endpoint:", argv.db_instance_identifier[1])
    /\ PrintedLine("Port:", "5432")

\* C3: whenever the create request is accepted and the wait reports the
\* instance available, the run describes the same instance, prints its
\* endpoint address and port and ends with exit code 0, whatever response the
\* provider returns (no Endpoint field and an empty instance list included).
C3_SuccessPrintsEndpoint ==
    (Exited /\ CreateAccepted /\ lastStatus = "available" /\ DescribeAnswered) =>
        /\ ProviderCalls[3] = [op |-> "describe", id |-> argv.db_instance_identifier[1]]
        /\ EndpointPrinted
        /\ exitCode = 0

\* C4: every provider-reported request error (ClientError) at create, wait
\* or describe is printed with the provider's message and ends the run at
\* once with a non-zero exit code; a ClientError from describe_db_instances
\* does not end in exit code 0.
ProviderErrorReported ==
    \/ CreateRejected
    \/ lastStatus = "error"
    \/ described = "client_error"

ProviderMessagePrinted ==
    \E i \in 1..Len(out) : out[i][2] \in ErrorMessages

C4_ProviderErrorNonZeroExit ==
    (Exited /\ ProviderErrorReported) =>
        /\ ProviderMessagePrinted
        /\ exitCode # 0

\* C5: an invalid command line (identifier missing, or --engine outside the
\* five choices) ends the run with a usage error before any password prompt,
\* before a session or client is built and before any provider call.
CommandLineInvalid ==
    \/ argv.db_instance_identifier = None
    \/ /\ argv.engine # None
       /\ argv.engine[1] \notin {"postgres", "mysql", "mariadb", "oracle-se2", "sqlserver-ex"}

C5_UsageErrorBeforeAnything ==
    CommandLineInvalid =>
        /\ pc \in {"parse_args", "exited"}
        /\ Exited => how = "usage_error"
        /\ prompts = 0
        /\ session = None
        /\ events = <<>>
        /\ createParams = EmptyDict

C5_Witness ==
    /\ Exited
    /\ how = "usage_error"
    /\ argv.db_instance_identifier # None
    /\ argv.engine = Some("aurora")
    /\ argv.master_user_password = None

\* C6: the exit code identifies the outcome one-to-one: 0 exactly when
\* create, wait and endpoint retrieval all succeeded, 1 exactly when the
\* create request failed, 2 exactly when the wait timed out or failed; no
\* other way of ending produces 1 or 2.
AllSucceeded ==
    /\ CreateAccepted
    /\ lastStatus = "available"
    /\ described = "endpoint"

C6_ExitCodeOneToOne ==
    Exited =>
        /\ exitCode = 0 <=> AllSucceeded
        /\ exitCode = 1 <=> CreateRejected
        /\ exitCode = 2 <=> (CreateAccepted /\ WaitFailed)

\* position of the first event of kind op (0 when there is none)
FirstIndex(op) ==
    IF Called(op) THEN CHOOSE i \in 1..Len(events) :
                          /\ events[i].op = op
                          /\ \A j \in 1..(i - 1) : events[j].op # op
    ELSE 0

Count(op) == Cardinality({i \in 1..Len(events) : events[i].op = op})

\* --master-user-password was given with a non-empty value
PasswordSupplied ==
    /\ argv.master_user_password # None
    /\ argv.master_user_password # Some("")

\* C7: in a run that reaches create_db_instance the secret prompt is shown
\* exactly when --master-user-password is omitted or empty: then once, before
\* the create request, and the value entered is sent as MasterUserPassword;
\* with a non-empty password there is no prompt and that value is sent
\* unchanged.  No run shows the prompt twice or with a password supplied.
C7_PromptIffPasswordOmitted ==
    /\ prompts = Count("prompt")
    /\ prompts <= 1
    /\ prompts = 1 => ~PasswordSupplied
    /\ pc \notin {"parse_args", "session", "create_db_instance", "exited"} =>
          (prompts = 1 <=> ~PasswordSupplied)
    /\ Called("create") =>
          /\ prompts = 1 <=> ~PasswordSupplied
          /\ prompts = 1 => FirstIndex("prompt") < FirstIndex("create")
          /\ createParams.MasterUserPassword =
                IF PasswordSupplied THEN argv.master_user_password[1] ELSE entered[1]

C7_Witness ==
    /\ Called("create")
    /\ argv.master_user_password = Some("")
    /\ prompts = 1
    /\ entered = Some("typed")
    /\ createParams.MasterUserPassword = "typed"

\* C8: the provider calls of a run are a prefix of create -> wait ->
\* describe: create at most once and not again after a failure, wait only
\* after create was accepted and at most once, describe at most once and only
\* after the wait succeeded, and no other call (no delete, no retry, no
\* rollback) after a failure.
CallOrder == <<"create", "wait", "describe">>

C8_CallsArePrefix ==
    /\ \A i \in 1..Len(events) : events[i].op \in {"session", "prompt"} \cup ProviderOps
    /\ Len(ProviderCalls) <= 3
    /\ \A i \in 1..Len(ProviderCalls) : ProviderCalls[i].op = CallOrder[i]
    /\ Called("wait") => (CreateAccepted /\ ~CreateRejected)
    /\ Called("describe") => (lastStatus = "available" /\ ~WaitFailed)
    /\ CreateRejected => Len(ProviderCalls) = 1
    /\ WaitFailed => Len(ProviderCalls) = 2
    /\ how = "uncaught" => pc = "exited"

C8_Witness ==
    /\ Exited
    /\ WaitFailed
    /\ Len(ProviderCalls) = 2
    /\ lastStatus \in FailureStatuses

\* C9: the wait step always terminates: the waiter is configured with a delay
\* of 30 seconds and floor(30 * 60 / 30) = 60 attempts, it makes at most that
\* many status checks whatever the provider answers, and wait_for_available
\* returns True only if the instance was observed available and False
\* otherwise.
WaitBounded ==
    /\ pc = "waiter_wait" =>
          /\ waiterConfig = [Delay |-> 30, MaxAttempts |-> 60]
          /\ attempts < 60
    /\ attempts <= 60
    /\ pc = "main_after_wait" =>
          /\ ok \in {"True", "False"}
          /\ ok = "True" <=> lastStatus = "available"
          /\ ok = "False" <=> WaitFailed

C9_WaitTerminates ==
    /\ []WaitBounded
    /\ (pc = "waiter_wait") ~> (pc \in {"main_after_wait", "exited"})

C9_Witness ==
    /\ pc = "main_after_wait"
    /\ attempts = 60
    /\ ok = "False"
    /\ lastStatus = "creating"

\* C10: the create request carries the identifier, storage size, instance
\* class, engine, master username, password, database name, multi-AZ flag,
\* public-accessibility flag, backup retention and StorageType "gp2" as
\* parsed from the command line (or their defaults); it carries
\* VpcSecurityGroupIds / DBSubnetGroupName if and only if that argument was
\* supplied non-empty; wait and describe use the identifier of the create
\* request.
FixedKeys ==
    {"DBInstanceIdentifier", "AllocatedStorage", "DBInstanceClass", "Engine",
     "MasterUsername", "MasterUserPassword", "DBName", "MultiAZ",
     "PubliclyAccessible", "BackupRetentionPeriod", "StorageType"}

SecurityGroupsSupplied ==
    /\ argv.vpc_security_group_ids # None
    /\ argv.vpc_security_group_ids # Some(<<>>)

SubnetGroupSupplied ==
    /\ argv.db_subnet_group_name # None
    /\ argv.db_subnet_group_name # Some("")

\* the value an option has after parsing: the one given, else the default
Given(opt, default) == IF opt = None THEN default ELSE opt[1]

C10_CreateRequestCarriesArgs ==
    Called("create") =>
        /\ DOMAIN createParams =
              FixedKeys
              \cup (IF SecurityGroupsSupplied THEN {"VpcSecurityGroupIds"} ELSE {})
              \cup (IF SubnetGroupSupplied THEN {"DBSubnetGroupName"} ELSE {})
        /\ createParams.DBInstanceIdentifier = argv.db_instance_identifier[1]
        /\ createParams.AllocatedStorage = args.allocated_storage
        /\ argv.allocated_storage = None => createParams.AllocatedStorage = 20
        /\ argv.allocated_storage = Some("100") => createParams.AllocatedStorage = 100
        /\ createParams.DBInstanceClass = Given(argv.db_instance_class, "db.t3.micro")
        /\ createParams.Engine = Given(argv.engine, "postgres")
        /\ createParams.MasterUsername = Given(argv.master_username, "admin")
        /\ createParams.MasterUserPassword =
              IF PasswordSupplied THEN argv.master_user_password[1] ELSE entered[1]
        /\ createParams.DBName = Given(argv.db_name, "mydb")
        /\ createParams.MultiAZ = argv.multi_az
        /\ createParams.PubliclyAccessible = argv.publicly_accessible
        /\ createParams.BackupRetentionPeriod = args.backup_retention_period
        /\ argv.backup_retention_period = None => createParams.BackupRetentionPeriod = 7
        /\ argv.backup_retention_period = Some("14") => createParams.BackupRetentionPeriod = 14
        /\ createParams.StorageType = "gp2"
        /\ SecurityGroupsSupplied =>
              createParams.VpcSecurityGroupIds = argv.vpc_security_group_ids[1]
        /\ SubnetGroupSupplied =>
              createParams.DBSubnetGroupName = argv.db_subnet_group_name[1]
        /\ \A i \in 1..Len(ProviderCalls) :
              ProviderCalls[i].id = createParams.DBInstanceIdentifier

C10_Witness ==
    /\ Called("describe")
    /\ argv.db_instance_identifier = Some("db2")
    /\ argv.vpc_security_group_ids = Some(<<>>)
    /\ argv.db_subnet_group_name = Some("subnet-a")
    /\ "DBSubnetGroupName" \in DOMAIN createParams
    /\ "VpcSecurityGroupIds" \notin DOMAIN createParams

====
